---- MODULE Spec2Model ----
(***************************************************************************)
(* Semantic story matching of the story-sharing backend:                   *)
(*   backend/services/story_matcher.py  (StoryMatcher)                     *)
(*   backend/services/story_service.py  (find_similar_stories, ...)        *)
(*   backend/routers/moderation.py      (approve_story, reject_story)      *)
(*   backend/routers/stories.py         (submit_story_for_review)          *)
(*                                                                         *)
(* Numbers.  Embeddings are vectors of integers whose Euclidean norm is an *)
(* integer, and a similarity is kept in hundredths (82 stands for 0.82),   *)
(* so that every cosine similarity of the model is exact.                  *)
(* Python values.  A MongoDB document is a function from its keys to       *)
(* values; a missing key is a key outside DOMAIN.  The value of            *)
(* "embedding" is a tagged record: PyNone or PyList(vector).               *)
(***************************************************************************)
EXTENDS Integers, Sequences, FiniteSets, TLC

VARIABLES
    model,             \* StoryMatcher.model: "primary", "fallback" or "none"
    story_data,        \* the story document handed to create_story_with_embedding
    pending_stories,   \* mongodb.database.pending_stories, in insertion order
    approved_stories,  \* mongodb.database.approved_stories, in insertion order
    rejected_stories,  \* mongodb.database.rejected_stories, in insertion order
    lastOp,            \* the operation that ran last
    lastArgs,          \* its arguments
    lastResult,        \* the value it returned
    lastRaised,        \* TRUE when it ended with an exception instead
    lastEncoded,       \* TRUE when it invoked model.encode
    inferenceFailed,   \* TRUE once an encode call of generate_embedding failed
    similarities,      \* find_similar...: the local list before the sort
    theme_text,        \* the text handed to _extract_key_themes
    hash_order,        \* the order in which this process iterates a set of themes
    requests,          \* the requests in flight: each one's handler, position and locals
    running,           \* the request whose coroutine the event loop executes, 0 when idle
    log,               \* the records the story matcher's logger has emitted
    users              \* mongodb.database.users

vars == <<model, story_data, pending_stories, approved_stories, rejected_stories,
          lastOp, lastArgs, lastResult, lastRaised, lastEncoded, inferenceFailed,
          similarities, theme_text, hash_order, requests, running, log, users>>

-----------------------------------------------------------------------------
(* Bounds of the model *)

MaxCandidates == 4   \* documents in the collection a scan is checked on
MaxTopK == 2         \* largest top_k supplied (the smallest is -1)
MaxPending == 2      \* stories waiting for moderation at start
MaxExcess == 2       \* characters of the longest narrative beyond the limit of 500
MaxExplained == 2    \* stories in the collection of ExplainSpec and of PipelineSpec

-----------------------------------------------------------------------------
(* Python values *)

PyNone == [t |-> "None"]
PyList(v) == [t |-> "list", v |-> v]
PyStr(s) == [t |-> "str", v |-> s]

\* dict.get(key): the value, or None for a missing key
Get(doc, key) == IF key \in DOMAIN doc THEN doc[key] ELSE PyNone

\* bool(x) of a value that is None or a list
Truthy(x) == x.t \in {"list", "str"} /\ Len(x.v) > 0

\* dict.pop(key, None) on a copy
Pop(doc, key) == [k \in (DOMAIN doc) \ {key} |-> doc[k]]

\* {**doc, key: val}
With(doc, key, val) == [k \in (DOMAIN doc) \cup {key} |-> IF k = key THEN val ELSE doc[k]]

\* str(ObjectId)
Str(id) == ToString(id)

\* text.strip() == "" for the texts of the model
IsBlank(text) == text \in {"", " "}

\* seq[:k], Python slicing: a negative k counts from the end
SliceTo(seq, k) ==
    IF k >= 0
    THEN SubSeq(seq, 1, IF k < Len(seq) THEN k ELSE Len(seq))
    ELSE SubSeq(seq, 1, IF Len(seq) + k > 0 THEN Len(seq) + k ELSE 0)

-----------------------------------------------------------------------------
(* Vectors and sklearn's cosine_similarity *)

RECURSIVE DotFrom(_, _, _)
DotFrom(a, b, i) == IF i > Len(a) THEN 0 ELSE a[i] * b[i] + DotFrom(a, b, i + 1)

Dot(a, b) == DotFrom(a, b, 1)

\* integer square root, by Newton's iteration from x
RECURSIVE SqrtFrom(_, _)
SqrtFrom(n, x) ==
    LET y == (x + n \div x) \div 2 IN
    IF y >= x THEN x ELSE SqrtFrom(n, y)

Sqrt(n) == IF n = 0 THEN 0 ELSE SqrtFrom(n, n)

\* row norm; sklearn's normalize() divides a zero row by 1
Norm(a) == LET n == Sqrt(Dot(a, a)) IN IF n = 0 THEN 1 ELSE n

\* check_pairwise_arrays raises ValueError on rows of different length
DimensionMismatch(a, b) == Len(a) # Len(b)

\* cosine_similarity([a], [b])[0][0], in hundredths
CosineSimilarity(a, b) == (100 * Dot(a, b)) \div (Norm(a) * Norm(b))

-----------------------------------------------------------------------------
(* The embedding model: an opaque function from text to a vector *)

Texts == {"", " ", "q1"}

Encode(text) ==
    CASE text = "q1" -> <<1, 0, 0, 0, 0>>
      [] OTHER       -> <<0, 1, 0, 0, 0>>

\* what one call of model.encode can do
EncodeOutcomes == {"ok", "raise", "none"}

-----------------------------------------------------------------------------
(* Stored stories *)

\* the embedding stored with story id
EmbeddingOf(id) ==
    CASE id = 1 -> PyList(<<41, 28, 5, 3, 1>>)
      [] id = 2 -> PyList(<<3, 19, 5, 2, 1>>)
      [] id = 3 -> PyNone
      [] id = 4 -> PyList(<<1, 19, 6, 1, 1>>)
      [] id = 5 -> PyList(<<>>)
      [] id = 6 -> PyList(<<1, 0>>)
      [] OTHER  -> PyList(<<0, 0, 0, 0, 0>>)

StoryIds == 1..7

StoryDoc(id, status) == [_id |-> id, status |-> status, embedding |-> EmbeddingOf(id)]

\* the sequences without repetition over S of length at most n
RECURSIVE InjectiveSeqs(_, _)
InjectiveSeqs(S, n) ==
    IF n = 0 THEN {<<>>}
    ELSE LET shorter == InjectiveSeqs(S, n - 1) IN
         shorter \cup UNION {{Append(s, x) : x \in S \ {s[i] : i \in 1..Len(s)}} :
                             s \in {t \in shorter : Len(t) = n - 1}}

Ids(collection) == {collection[i]["_id"] : i \in 1..Len(collection)}

-----------------------------------------------------------------------------
(* StoryMatcher.generate_embedding *)

\* the same with a handler that gives the provider up after a failed call
ModelAfterEncodeDisabling(outcome) == IF outcome = "ok" THEN model ELSE "none"

\* self.model after a call of encode: neither the call nor the except clause
\* assigns self.model
ModelAfterEncode(outcome) == model

\* the same with a model that is loaded again on demand
GenerateEmbeddingCallReloading(text, outcome) ==
    IF IsBlank(text) THEN [result |-> <<>>, encoded |-> FALSE]
    ELSE IF outcome = "ok" THEN [result |-> Encode(text), encoded |-> TRUE]
    ELSE [result |-> <<>>, encoded |-> TRUE]

\* the same without the test for an empty text
GenerateEmbeddingCallNoBlankCheck(text, outcome) ==
    IF model = "none" THEN [result |-> <<>>, encoded |-> FALSE]
    ELSE IF outcome = "ok" THEN [result |-> Encode(text), encoded |-> TRUE]
    ELSE [result |-> <<>>, encoded |-> TRUE]

\* the return value, and whether encode was invoked
GenerateEmbeddingCall(text, outcome) ==
    IF model = "none" THEN [result |-> <<>>, encoded |-> FALSE]
    ELSE IF IsBlank(text) THEN [result |-> <<>>, encoded |-> FALSE]
    ELSE IF outcome = "ok" THEN [result |-> Encode(text), encoded |-> TRUE]
    ELSE [result |-> <<>>, encoded |-> TRUE]

-----------------------------------------------------------------------------
(* StoryMatcher.create_story_embedding_text.  A str is a TLA+ string: Len, *)
(* \o and SubSeq are len, + and slicing.                                   *)

\* if len(story_text) > 500
NarrativeLimit == 500

\* sep.join(parts)
RECURSIVE JoinFrom(_, _, _)
JoinFrom(parts, i, sep) ==
    IF i > Len(parts) THEN ""
    ELSE IF i = Len(parts) THEN parts[i]
    ELSE parts[i] \o sep \o JoinFrom(parts, i + 1, sep)

Join(parts, sep) == JoinFrom(parts, 1, sep)

\* the (label, field) pairs of the loop, in its order
Fields ==
    << [label |-> "Challenge",  field |-> "challenge"],
       [label |-> "Experience", field |-> "experience"],
       [label |-> "Solution",   field |-> "solution"],
       [label |-> "Advice",     field |-> "advice"] >>

\* the same with the test "field in story_doc" in place of story_doc.get(field)
FieldPartKeepingEmpty(story_doc, f) ==
    IF f.field \in DOMAIN story_doc /\ story_doc[f.field].t = "str"
    THEN << f.label \o ": " \o story_doc[f.field].v >>
    ELSE <<>>

\* one pass of the loop: what it appends to text_parts
FieldPart(story_doc, f) ==
    IF Truthy(Get(story_doc, f.field))
    THEN << f.label \o ": " \o story_doc[f.field].v >>
    ELSE <<>>

RECURSIVE FieldPartsFrom(_, _)
FieldPartsFrom(story_doc, i) ==
    IF i > Len(Fields) THEN <<>>
    ELSE FieldPart(story_doc, Fields[i]) \o FieldPartsFrom(story_doc, i + 1)

\* the strings of a list of str
Strings(items) == [i \in 1..Len(items) |-> items[i].v]

\* ", ".join(x) raises TypeError on an item that is not a str
JoinRaises(items) == \E i \in 1..Len(items) : items[i].t # "str"

SymptomsPart(story_doc) ==
    IF Truthy(Get(story_doc, "key_symptoms"))
    THEN << "Symptoms: " \o Join(Strings(story_doc["key_symptoms"].v), ", ") >>
    ELSE <<>>

\* the same with len(story_text) >= 500
TruncateInclusive(story_text) ==
    IF Len(story_text) >= NarrativeLimit
    THEN SliceTo(story_text, NarrativeLimit) \o "..."
    ELSE story_text

\* story_text[:500] + "..." of a text longer than 500
Truncate(story_text) ==
    IF Len(story_text) > NarrativeLimit
    THEN SliceTo(story_text, NarrativeLimit) \o "..."
    ELSE story_text

StoryPart(story_doc) ==
    IF Truthy(Get(story_doc, "generated_story"))
    THEN << "Story: " \o Truncate(story_doc["generated_story"].v) >>
    ELSE <<>>

\* the same with story_doc[field] read before the test, a KeyError on a
\* missing field
CompositionRaisesOnMissing(story_doc) ==
    \/ \E i \in 1..Len(Fields) : Fields[i].field \notin DOMAIN story_doc
    \/ Truthy(Get(story_doc, "key_symptoms")) /\ JoinRaises(story_doc["key_symptoms"].v)

\* the try block raises: the only statement that can, on documents whose
\* fields are None, str or list, is the join of the symptoms
CompositionRaises(story_doc) ==
    Truthy(Get(story_doc, "key_symptoms")) /\ JoinRaises(story_doc["key_symptoms"].v)

ErrorText == "Error creating embedding text"

\* the same with the cut narrative written back into the document
StoryAfterComposeTruncating(story_doc) ==
    IF Truthy(Get(story_doc, "generated_story"))
    THEN With(story_doc, "generated_story", PyStr(Truncate(story_doc["generated_story"].v)))
    ELSE story_doc

\* story_doc after the call: the function assigns to its local names only
StoryAfterCompose(story_doc) == story_doc

CreateStoryEmbeddingText(story_doc) ==
    IF CompositionRaises(story_doc) THEN ErrorText
    ELSE Join(FieldPartsFrom(story_doc, 1) \o SymptomsPart(story_doc) \o StoryPart(story_doc),
              " | ")

-----------------------------------------------------------------------------
(* services/story_service.py create_story_with_embedding *)

\* the same with the list of generate_embedding stored as it is
CreateStoryWithEmbeddingCallKeepingEmpty(story, outcome) ==
    IF model = "none" THEN [result |-> story, raised |-> FALSE, encoded |-> FALSE]
    ELSE LET story_text == CreateStoryEmbeddingText(story)
             composed   == StoryAfterCompose(story)
         IN
         IF story_text = "" \/ story_text = ErrorText
         THEN [result |-> composed, raised |-> FALSE, encoded |-> FALSE]
         ELSE LET e == GenerateEmbeddingCall(story_text, outcome) IN
              [result |-> With(composed, "embedding", PyList(e.result)),
               raised |-> FALSE, encoded |-> e.encoded]

\* the same without the try block around the composer's failure
CreateStoryWithEmbeddingCallUnguarded(story, outcome) ==
    IF model = "none" THEN [result |-> story, raised |-> FALSE, encoded |-> FALSE]
    ELSE IF CompositionRaises(story)
    THEN [result |-> story, raised |-> TRUE, encoded |-> FALSE]
    ELSE LET story_text == CreateStoryEmbeddingText(story)
             composed   == StoryAfterCompose(story)
         IN
         IF story_text = "" \/ story_text = ErrorText
         THEN [result |-> composed, raised |-> FALSE, encoded |-> FALSE]
         ELSE LET e == GenerateEmbeddingCall(story_text, outcome) IN
              IF Len(e.result) > 0
              THEN [result |-> With(composed, "embedding", PyList(e.result)),
                    raised |-> FALSE, encoded |-> e.encoded]
              ELSE [result |-> With(composed, "embedding", PyNone),
                    raised |-> FALSE, encoded |-> e.encoded]

\* the returned story_data, and whether encode was invoked
CreateStoryWithEmbeddingCall(story, outcome) ==
    IF model = "none" THEN [result |-> story, raised |-> FALSE, encoded |-> FALSE]
    ELSE LET story_text == CreateStoryEmbeddingText(story)
             composed   == StoryAfterCompose(story)
         IN
         IF story_text = "" \/ story_text = ErrorText
         THEN [result |-> composed, raised |-> FALSE, encoded |-> FALSE]
         ELSE LET e == GenerateEmbeddingCall(story_text, outcome) IN
              IF Len(e.result) > 0
              THEN [result |-> With(composed, "embedding", PyList(e.result)),
                    raised |-> FALSE, encoded |-> e.encoded]
              ELSE [result |-> With(composed, "embedding", PyNone),
                    raised |-> FALSE, encoded |-> e.encoded]

-----------------------------------------------------------------------------
(* StoryMatcher._extract_key_themes *)

\* theme_keywords, in the order of the dict
ThemeKeywords ==
    << [theme |-> "depression",
        keywords |-> <<"depression", "depressed", "sad", "hopeless", "worthless", "empty", "dark">>],
       [theme |-> "anxiety",
        keywords |-> <<"anxiety", "anxious", "worried", "panic", "overwhelmed", "scared", "fear">>],
       [theme |-> "isolation",
        keywords |-> <<"lonely", "alone", "isolated", "no one", "support", "friends">>],
       [theme |-> "sleep",
        keywords |-> <<"sleep", "tired", "exhausted", "insomnia", "sleepless", "fatigue">>],
       [theme |-> "feeding",
        keywords |-> <<"breastfeeding", "feeding", "bottle", "latch", "milk", "nutrition">>],
       [theme |-> "bonding",
        keywords |-> <<"bond", "bonding", "connection", "attachment", "love", "feelings">>],
       [theme |-> "identity",
        keywords |-> <<"identity", "myself", "who am i", "lost", "changed", "person">>],
       [theme |-> "relationship",
        keywords |-> <<"partner", "husband", "relationship", "marriage", "spouse">>],
       [theme |-> "support",
        keywords |-> <<"help", "support", "therapy", "counselor", "treatment", "medication">>],
       [theme |-> "recovery",
        keywords |-> <<"better", "healing", "recovery", "improvement", "hope", "progress">>],
       [theme |-> "guilt",
        keywords |-> <<"guilt", "shame", "failure", "bad mother", "not enough">>],
       [theme |-> "baby",
        keywords |-> <<"baby", "newborn", "infant", "child", "crying", "care">>] >>

UpperCase == "ABCDEFGHIJKLMNOPQRSTUVWXYZ"
LowerCase == "abcdefghijklmnopqrstuvwxyz"

\* c.lower() of one character
LowerChar(c) ==
    IF \E i \in 1..Len(UpperCase) : SubSeq(UpperCase, i, i) = c
    THEN LET i == CHOOSE k \in 1..Len(UpperCase) : SubSeq(UpperCase, k, k) = c
         IN  SubSeq(LowerCase, i, i)
    ELSE c

\* text.lower()
RECURSIVE Lower(_)
Lower(text) ==
    IF Len(text) = 0 THEN ""
    ELSE IF Len(text) = 1 THEN LowerChar(text)
    ELSE LET mid == Len(text) \div 2 IN
         Lower(SubSeq(text, 1, mid)) \o Lower(SubSeq(text, mid + 1, Len(text)))

\* keyword in text
Contains(text, keyword) ==
    \E i \in 1..(Len(text) - Len(keyword) + 1) :
        SubSeq(text, i, i + Len(keyword) - 1) = keyword

\* any(keyword in text_lower for keyword in keywords)
AnyKeyword(text_lower, keywords) ==
    \E k \in 1..Len(keywords) : Contains(text_lower, keywords[k])

RECURSIVE ThemesFrom(_, _)
ThemesFrom(text_lower, i) ==
    IF i > Len(ThemeKeywords) THEN <<>>
    ELSE (IF AnyKeyword(text_lower, ThemeKeywords[i].keywords)
          THEN <<ThemeKeywords[i].theme>> ELSE <<>>)
         \o ThemesFrom(text_lower, i + 1)

\* len("sad"): no keyword is shorter
ShortestKeyword == 3

\* the same without text.lower()
ExtractKeyThemesCaseSensitive(text) == ThemesFrom(text, 1)

\* the list themes; a text shorter than every keyword holds none of them
ExtractKeyThemes(text) ==
    IF Len(text) < ShortestKeyword THEN <<>> ELSE ThemesFrom(Lower(text), 1)

-----------------------------------------------------------------------------
(* StoryMatcher._explain_match *)

\* the themes in the order of the dict
DictOrder == [i \in 1..Len(ThemeKeywords) |-> ThemeKeywords[i].theme]

\* set(list_of_themes)
SetOf(themes) == {themes[i] : i \in 1..Len(themes)}

\* the same with the union of the two sets
CommonThemesUnion(input_text, story_text) ==
    LET input_themes == SetOf(ExtractKeyThemes(input_text))
        story_themes == SetOf(ExtractKeyThemes(story_text))
    IN  SelectSeq(hash_order, LAMBDA theme : theme \in input_themes \cup story_themes)

\* input_themes.intersection(story_themes), as a loop over the set meets it
CommonThemes(input_text, story_text) ==
    LET input_themes == SetOf(ExtractKeyThemes(input_text))
        story_themes == SetOf(ExtractKeyThemes(story_text))
    IN  SelectSeq(hash_order, LAMBDA theme : theme \in input_themes \cap story_themes)

GenericExplanation == "Similar emotional journey and experiences"

\* on a str input_text nothing in the try block raises, and the except
\* clause with its "Similar experiences" is not reached
ExplainMatch(input_text, story) ==
    LET common_themes == CommonThemes(input_text, CreateStoryEmbeddingText(story)) IN
    IF Len(common_themes) > 0
    THEN "Similar experiences with: " \o Join(common_themes, ", ")
    ELSE GenericExplanation

-----------------------------------------------------------------------------
(* StoryMatcher.find_similar_stories_with_embeddings *)

\* stories_collection.find({"embedding": {"$exists": True, "$ne": None}, "status": "approved"})
MatchesQuery(story) ==
    /\ "embedding" \in DOMAIN story
    /\ story["embedding"] # PyNone
    /\ "status" \in DOMAIN story
    /\ story["status"] = "approved"

Cursor(collection) == SelectSeq(collection, MatchesQuery)

\* an exclusive threshold
MeetsThresholdStrict(similarity, min_similarity) == similarity > min_similarity

\* similarity >= min_similarity
MeetsThreshold(similarity, min_similarity) == similarity >= min_similarity

\* one pass of the loop body: the list after looking at story
ScanStory(acc, story, input_embedding, min_similarity) ==
    IF ~Truthy(Get(story, "embedding")) THEN acc
    ELSE LET story_embedding == story["embedding"].v IN
         IF Len(story_embedding) = 0 THEN acc
         ELSE IF DimensionMismatch(input_embedding, story_embedding) THEN acc
         ELSE LET similarity == CosineSimilarity(input_embedding, story_embedding) IN
              IF MeetsThreshold(similarity, min_similarity)
              THEN Append(acc, [story |-> story, similarity |-> similarity])
              ELSE acc

\* the loop without the inner try: a ValueError reaches the outer handler
RECURSIVE ScanFromAborting(_, _, _, _, _)
ScanFromAborting(stories, i, acc, input_embedding, min_similarity) ==
    IF i > Len(stories) THEN acc
    ELSE IF /\ Truthy(Get(stories[i], "embedding"))
            /\ DimensionMismatch(input_embedding, stories[i]["embedding"].v)
    THEN <<>>
    ELSE ScanFromAborting(stories, i + 1,
                          ScanStory(acc, stories[i], input_embedding, min_similarity),
                          input_embedding, min_similarity)

RECURSIVE ScanFrom(_, _, _, _, _)
ScanFrom(stories, i, acc, input_embedding, min_similarity) ==
    IF i > Len(stories) THEN acc
    ELSE ScanFrom(stories, i + 1,
                  ScanStory(acc, stories[i], input_embedding, min_similarity),
                  input_embedding, min_similarity)

\* an insertion that puts an item before its equals
RECURSIVE InsertDescBeforeEqual(_, _)
InsertDescBeforeEqual(sorted, item) ==
    IF sorted = <<>> THEN <<item>>
    ELSE IF Head(sorted).similarity > item.similarity
         THEN <<Head(sorted)>> \o InsertDescBeforeEqual(Tail(sorted), item)
         ELSE <<item>> \o sorted

\* list.sort(key=similarity, reverse=True) is stable: an item goes behind
\* every item that is not smaller
RECURSIVE InsertDesc(_, _)
InsertDesc(sorted, item) ==
    IF sorted = <<>> THEN <<item>>
    ELSE IF Head(sorted).similarity >= item.similarity
         THEN <<Head(sorted)>> \o InsertDesc(Tail(sorted), item)
         ELSE <<item>> \o sorted

RECURSIVE SortDescFrom(_, _, _)
SortDescFrom(items, i, sorted) ==
    IF i > Len(items) THEN sorted
    ELSE SortDescFrom(items, i + 1, InsertDesc(sorted, items[i]))

\* no sort at all
SortBySimilarityOmitted(items) == items

SortBySimilarity(items) == SortDescFrom(items, 1, <<>>)

\* no cut at all
TakeTopKOmitted(sorted, top_k) == sorted

\* similarities[:top_k]
TakeTopK(sorted, top_k) == SliceTo(sorted, top_k)

\* the payload with the embedding left in
FormatStoryKeepEmbedding(story) ==
    IF "_id" \in DOMAIN story THEN With(story, "_id", Str(story["_id"])) ELSE story

\* the story payload of a result
FormatStory(story) ==
    LET copy == Pop(story, "embedding") IN
    IF "_id" \in DOMAIN copy THEN With(copy, "_id", Str(copy["_id"])) ELSE copy

FormatResults(items, input_text) ==
    [i \in 1..Len(items) |->
        [story |-> FormatStory(items[i].story),
         similarity |-> items[i].similarity,
         match_explanation |-> ExplainMatch(input_text, FormatStory(items[i].story))]]

\* an outer except clause that raises again
OnSearchErrorReraised == [result |-> <<>>, raised |-> TRUE]

\* the outer except clause: log and return []
OnSearchError == [result |-> <<>>, raised |-> FALSE]

FindSimilarStoriesWithEmbeddings(input_text, stories_collection, top_k, min_similarity, outcome) ==
    IF model = "none"
    THEN [result |-> <<>>, raised |-> FALSE, encoded |-> FALSE, similarities |-> <<>>]
    ELSE IF outcome = "raise"
    THEN [result |-> OnSearchError.result, raised |-> OnSearchError.raised,
          encoded |-> TRUE, similarities |-> <<>>]
    ELSE IF outcome = "none"
    THEN [result |-> <<>>, raised |-> FALSE, encoded |-> TRUE, similarities |-> <<>>]
    ELSE IF outcome = "cursor"
    THEN [result |-> OnSearchError.result, raised |-> OnSearchError.raised,
          encoded |-> TRUE, similarities |-> <<>>]
    ELSE LET input_embedding == Encode(input_text)
             found == ScanFrom(Cursor(stories_collection), 1, <<>>,
                               input_embedding, min_similarity)
         IN  [result |-> FormatResults(TakeTopK(SortBySimilarity(found), top_k), input_text),
              raised |-> FALSE, encoded |-> TRUE, similarities |-> found]

-----------------------------------------------------------------------------
(* Collections *)

\* collection.find_one({"_id": id}): the position of the document, 0 if none
FindOne(collection, id) ==
    IF \E i \in 1..Len(collection) : collection[i]["_id"] = id
    THEN CHOOSE i \in 1..Len(collection) :
            /\ collection[i]["_id"] = id
            /\ \A j \in 1..(i - 1) : collection[j]["_id"] # id
    ELSE 0

\* a delete that matches nothing
DeleteOneNoMatch(collection, id) == collection

\* collection.delete_one({"_id": id})
DeleteOne(collection, id) ==
    LET i == FindOne(collection, id) IN
    IF i = 0 THEN collection
    ELSE SubSeq(collection, 1, i - 1) \o SubSeq(collection, i + 1, Len(collection))

\* collection.insert_one(doc) fails with DuplicateKeyError on a used _id
DuplicateKey(collection, doc) == doc["_id"] \in Ids(collection)

InsertOne(collection, doc) == Append(collection, doc)

-----------------------------------------------------------------------------
(* Inputs *)

TopKs == -1..MaxTopK
MinSims == {0, 10, 15, 90}
QueryTexts == {"", "q1"}

\* find_similar_stories(input_story, top_k=9, min_similarity=0.1)
DefaultTopK == 9
DefaultMinSimilarity == 10
Moderator == "mod@example.org"

\* s * n
RECURSIVE Repeat(_, _)
Repeat(s, n) ==
    IF n = 0 THEN ""
    ELSE LET half == Repeat(s, n \div 2) IN
         half \o half \o (IF n % 2 = 1 THEN s ELSE "")

\* a text of n characters, no two neighbours alike
TextOfLength(n) == SubSeq(Repeat("0123456789", (n \div 10) + 1), 1, n)

\* a key the document does not have
Absent == [t |-> "absent"]

FieldValues(text) == {Absent, PyNone, PyStr(""), PyStr(text)}

SymptomValues ==
    {Absent, PyNone, PyList(<<>>), PyList(<<PyStr("anxiety")>>),
     PyList(<<PyStr("anxiety"), PyStr("fatigue")>>), PyList(<<PyNone>>)}

NarrativeLengths ==
    {1, NarrativeLimit - 1, NarrativeLimit} \cup
    (NarrativeLimit + 1 .. NarrativeLimit + MaxExcess)

NarrativeValues ==
    {Absent, PyNone, PyStr("")} \cup {PyStr(TextOfLength(n)) : n \in NarrativeLengths}

\* the document that has the keys chosen to be present
DocOf(choice) == [k \in {key \in DOMAIN choice : choice[key] # Absent} |-> choice[k]]

StoryInputs ==
    {DocOf([challenge |-> c, experience |-> e, solution |-> s, advice |-> a,
            key_symptoms |-> k, generated_story |-> g]) :
        c \in FieldValues("no sleep"), e \in FieldValues("felt alone"),
        s \in FieldValues("therapy"), a \in FieldValues("ask for help"),
        k \in SymptomValues, g \in NarrativeValues}

-----------------------------------------------------------------------------
(* Operations *)

Returns(op, args, result, raised, encoded) ==
    /\ lastOp' = op
    /\ lastArgs' = args
    /\ lastResult' = result
    /\ lastRaised' = raised
    /\ lastEncoded' = encoded
    /\ inferenceFailed' = (inferenceFailed \/
                             (/\ op \in {"generate_embedding", "create_story_with_embedding", "submit"}
                              /\ encoded
                              /\ args.outcome # "ok"))

\* stories_collection = mongodb.database.approved_stories
SearchCollection == approved_stories

\* services/story_service.py find_similar_stories: the scan of approved_stories
FindSimilarStories(texts, top_ks, min_sims, outcomes) ==
    \E input_story \in texts, top_k \in top_ks, min_similarity \in min_sims, outcome \in outcomes :
        LET r == FindSimilarStoriesWithEmbeddings(input_story, SearchCollection,
                                                  top_k, min_similarity, outcome)
        IN  /\ Returns("find_similar",
                       [input_text |-> input_story, top_k |-> top_k,
                        min_similarity |-> min_similarity, outcome |-> outcome],
                       r.result, r.raised, r.encoded)
            /\ similarities' = r.similarities
            /\ UNCHANGED <<story_data, model, pending_stories, approved_stories, rejected_stories,
                           theme_text, hash_order, requests, running, log, users>>

\* StoryMatcher.generate_embedding
GenerateEmbedding ==
    \E text \in Texts, outcome \in EncodeOutcomes :
        LET r == GenerateEmbeddingCall(text, outcome) IN
        /\ Returns("generate_embedding", [text |-> text, outcome |-> outcome],
                   r.result, FALSE, r.encoded)
        /\ model' = IF r.encoded THEN ModelAfterEncode(outcome) ELSE model
        /\ UNCHANGED <<story_data, pending_stories, approved_stories, rejected_stories,
                       similarities, theme_text, hash_order, requests, running, log, users>>

\* the same without the vector of the pending document
ApprovedCopyWithoutEmbedding(story) ==
    Pop(With(With(story, "status", "approved"), "approved_by", Moderator), "embedding")

\* routers/moderation.py approve_story
ApprovedCopy(story) == With(With(story, "status", "approved"), "approved_by", Moderator)

ApproveStory ==
    \E story_id \in 1..MaxPending :
        LET i == FindOne(pending_stories, story_id) IN
        IF i = 0
        THEN /\ Returns("approve", [story_id |-> story_id], 404, TRUE, FALSE)
             /\ UNCHANGED <<story_data, model, pending_stories, approved_stories, rejected_stories,
                            similarities, theme_text, hash_order, requests, running, log, users>>
        ELSE LET approved_story == ApprovedCopy(pending_stories[i]) IN
             IF DuplicateKey(approved_stories, approved_story)
             THEN /\ Returns("approve", [story_id |-> story_id], 500, TRUE, FALSE)
                  /\ UNCHANGED <<story_data, model, pending_stories, approved_stories,
                                 rejected_stories, similarities, theme_text, hash_order, requests, running, log, users>>
             ELSE /\ approved_stories' = InsertOne(approved_stories, approved_story)
                  /\ pending_stories' = DeleteOne(pending_stories, story_id)
                  /\ Returns("approve", [story_id |-> story_id], 200, FALSE, FALSE)
                  /\ UNCHANGED <<story_data, model, rejected_stories, similarities, theme_text, hash_order, requests, running, log, users>>

\* routers/moderation.py reject_story
RejectedCopy(story) ==
    With(With(With(story, "status", "rejected"), "rejected_by", Moderator),
         "rejection_reason", "Does not meet community guidelines")

RejectStory ==
    \E story_id \in 1..MaxPending :
        LET i == FindOne(pending_stories, story_id) IN
        IF i = 0
        THEN /\ Returns("reject", [story_id |-> story_id], 404, TRUE, FALSE)
             /\ UNCHANGED <<story_data, model, pending_stories, approved_stories, rejected_stories,
                            similarities, theme_text, hash_order, requests, running, log, users>>
        ELSE LET rejected_story == RejectedCopy(pending_stories[i]) IN
             IF DuplicateKey(rejected_stories, rejected_story)
             THEN /\ Returns("reject", [story_id |-> story_id], 500, TRUE, FALSE)
                  /\ UNCHANGED <<story_data, model, pending_stories, approved_stories,
                                 rejected_stories, similarities, theme_text, hash_order, requests, running, log, users>>
             ELSE /\ rejected_stories' = InsertOne(rejected_stories, rejected_story)
                  /\ pending_stories' = DeleteOne(pending_stories, story_id)
                  /\ Returns("reject", [story_id |-> story_id], 200, FALSE, FALSE)
                  /\ UNCHANGED <<story_data, model, approved_stories, similarities, theme_text, hash_order, requests, running, log, users>>

\* services/story_service.py generate_recovery_story: story_data of a request
\* whose narrative comes from create_fallback_recovery_story
StoryData(challenge) ==
    [challenge       |-> PyStr(challenge),
     experience      |-> PyStr("felt alone"),
     solution        |-> PyStr("therapy"),
     advice          |-> PyStr(""),
     generated_story |-> PyStr("Recovery Story: Overcoming " \o challenge),
     author_name     |-> PyStr("Anonymous"),
     model_used      |-> PyStr("fallback"),
     key_symptoms    |-> PyList(<<PyStr("anxiety")>>)]

\* database/models/moderation.py: the parameters of submit_story_for_review
ModerationParams ==
    {"user_id", "author_name", "challenge", "experience", "solution", "advice",
     "generated_story", "model_used", "key_symptoms"}

\* routers/stories.py: the keywords of the call of submit_story_for_review
SubmitKeywords == ModerationParams \cup {"embedding"}

\* a call with a keyword that is not a parameter raises TypeError
UnexpectedKeyword(keywords, params) == keywords \ params # {}

\* the _id insert_one gives a new document
NewId == MaxPending + 1 + Len(pending_stories) + Len(approved_stories) + Len(rejected_stories)

\* database/models/moderation.py: story_doc, built from the parameters
PendingDoc(id, story) ==
    [k \in {"_id", "status", "user_id"} \cup (ModerationParams \cap DOMAIN story) |->
        CASE k = "_id"     -> id
          [] k = "status"  -> "pending"
          [] k = "user_id" -> PyStr("user")
          [] OTHER         -> story[k]]

\* routers/stories.py submit_story_for_review
SubmitStory ==
    \E challenge \in Texts, crisis \in BOOLEAN, outcome \in EncodeOutcomes :
        LET args == [challenge |-> challenge, crisis |-> crisis, outcome |-> outcome] IN
        IF IsBlank(challenge)
        THEN /\ Returns("submit", args, 400, TRUE, FALSE)
             /\ UNCHANGED <<story_data, model, pending_stories, approved_stories,
                            rejected_stories, similarities, theme_text, hash_order, requests, running, log, users>>
        ELSE IF crisis
        THEN /\ Returns("submit", args, 200, FALSE, FALSE)
             /\ UNCHANGED <<story_data, model, pending_stories, approved_stories,
                            rejected_stories, similarities, theme_text, hash_order, requests, running, log, users>>
        ELSE LET r == CreateStoryWithEmbeddingCall(StoryData(challenge), outcome) IN
             /\ story_data' = r.result
             /\ IF UnexpectedKeyword(SubmitKeywords, ModerationParams)
                THEN /\ Returns("submit", args, 500, TRUE, r.encoded)
                     /\ UNCHANGED pending_stories
                ELSE /\ Returns("submit", args, 200, FALSE, r.encoded)
                     /\ pending_stories' = InsertOne(pending_stories,
                                                     PendingDoc(NewId, r.result))
             /\ UNCHANGED <<model, approved_stories, rejected_stories, similarities, theme_text, hash_order, requests, running, log, users>>

-----------------------------------------------------------------------------
(* Spec: the service.  The model is as StoryMatcher.__init__ left it, and   *)
(* pending_stories holds the stories that wait for moderation.             *)

Init ==
    /\ model \in {"primary", "fallback", "none"}
    /\ story_data = <<>>
    /\ pending_stories \in {[i \in 1..Len(ids) |-> StoryDoc(ids[i], "pending_review")] :
                              ids \in InjectiveSeqs(1..MaxPending, MaxPending)}
    /\ approved_stories = <<>>
    /\ rejected_stories = <<>>
    /\ lastOp = "none"
    /\ lastArgs = <<>>
    /\ lastResult = <<>>
    /\ lastRaised = FALSE
    /\ lastEncoded = FALSE
    /\ inferenceFailed = FALSE
    /\ similarities = <<>>
    /\ theme_text = ""
    /\ hash_order = DictOrder
    /\ requests = <<>>
    /\ running = 0
    /\ log = <<>>
    /\ users = <<>>

Next ==
    \/ SubmitStory
    \/ ApproveStory
    \/ RejectStory
    \/ FindSimilarStories(Texts, {DefaultTopK}, {DefaultMinSimilarity}, EncodeOutcomes)
    \/ GenerateEmbedding

Spec == Init /\ [][Next]_vars

-----------------------------------------------------------------------------
(* MatchSpec: find_similar_stories_with_embeddings as a function of the     *)
(* collection it scans, on a loaded model whose encode call succeeds.      *)

MatchInit ==
    /\ model = "primary"
    /\ story_data = <<>>
    /\ approved_stories \in {[i \in 1..Len(ids) |-> StoryDoc(ids[i], "approved")] :
                               ids \in InjectiveSeqs(StoryIds, MaxCandidates)}
    /\ pending_stories = <<>>
    /\ rejected_stories = <<>>
    /\ lastOp = "none"
    /\ lastArgs = <<>>
    /\ lastResult = <<>>
    /\ lastRaised = FALSE
    /\ lastEncoded = FALSE
    /\ inferenceFailed = FALSE
    /\ similarities = <<>>
    /\ theme_text = ""
    /\ hash_order = DictOrder
    /\ requests = <<>>
    /\ running = 0
    /\ log = <<>>
    /\ users = <<>>

\* one call on each collection
MatchNext ==
    /\ lastOp = "none"
    /\ FindSimilarStories(QueryTexts, TopKs, MinSims, {"ok"})

MatchSpec == MatchInit /\ [][MatchNext]_vars

-----------------------------------------------------------------------------
(* ComposeSpec: create_story_embedding_text and create_story_with_embedding *)
(* as functions of the story document, one call on each document.          *)

\* StoryMatcher.create_story_embedding_text(story_data)
ComposeText ==
    /\ Returns("compose", [story_doc |-> story_data],
               CreateStoryEmbeddingText(story_data), FALSE, FALSE)
    /\ story_data' = StoryAfterCompose(story_data)
    /\ UNCHANGED <<model, pending_stories, approved_stories, rejected_stories,
                   similarities, theme_text, hash_order, requests, running, log, users>>

\* create_story_with_embedding(story_data): the dict is changed in place
CreateStoryWithEmbedding ==
    \E outcome \in EncodeOutcomes :
        LET r == CreateStoryWithEmbeddingCall(story_data, outcome) IN
        /\ Returns("create_story_with_embedding",
                   [story_data |-> story_data, outcome |-> outcome],
                   r.result, r.raised, r.encoded)
        /\ story_data' = r.result
        /\ UNCHANGED <<model, pending_stories, approved_stories, rejected_stories,
                       similarities, theme_text, hash_order, requests, running, log, users>>

ComposeInit ==
    /\ model \in {"primary", "none"}
    /\ story_data \in StoryInputs
    /\ pending_stories = <<>>
    /\ approved_stories = <<>>
    /\ rejected_stories = <<>>
    /\ lastOp = "none"
    /\ lastArgs = <<>>
    /\ lastResult = <<>>
    /\ lastRaised = FALSE
    /\ lastEncoded = FALSE
    /\ inferenceFailed = FALSE
    /\ similarities = <<>>
    /\ theme_text = ""
    /\ hash_order = DictOrder
    /\ requests = <<>>
    /\ running = 0
    /\ log = <<>>
    /\ users = <<>>

ComposeNext ==
    /\ lastOp = "none"
    /\ \/ ComposeText
       \/ CreateStoryWithEmbedding

ComposeSpec == ComposeInit /\ [][ComposeNext]_vars

-----------------------------------------------------------------------------
(* ThemeSpec: _extract_key_themes as a function of the text, one call on   *)
(* each text.                                                              *)

\* the sentence of the specification's example
ExampleText == "I haven't slept in days and feel so alone"

ThemeWords ==
    {"", "sleep", "slept", "Sleepless", "TIRED", "alone", "lonely", "no one", "noone",
     "Who am I", "scared", "hopeful", "sad", "baby", "bad mother", "mother", "help",
     "support", "xyz", "feel"}

ThemeTexts ==
    {ExampleText} \cup
    {prefix \o word \o suffix :
        prefix \in {"", "I haven't ", "so "},
        word \in ThemeWords,
        suffix \in {"", " in days", " and LOST"}}

\* StoryMatcher._extract_key_themes(theme_text)
ExtractThemes ==
    /\ Returns("extract_key_themes", [text |-> theme_text],
               ExtractKeyThemes(theme_text), FALSE, FALSE)
    /\ UNCHANGED <<story_data, model, pending_stories, approved_stories, rejected_stories,
                   similarities, theme_text, hash_order, requests, running, log, users>>

ThemeInit ==
    /\ model = "primary"
    /\ theme_text \in ThemeTexts
    /\ hash_order = DictOrder
    /\ requests = <<>>
    /\ running = 0
    /\ log = <<>>
    /\ users = <<>>
    /\ story_data = <<>>
    /\ pending_stories = <<>>
    /\ approved_stories = <<>>
    /\ rejected_stories = <<>>
    /\ lastOp = "none"
    /\ lastArgs = <<>>
    /\ lastResult = <<>>
    /\ lastRaised = FALSE
    /\ lastEncoded = FALSE
    /\ inferenceFailed = FALSE
    /\ similarities = <<>>

ThemeNext ==
    /\ lastOp = "none"
    /\ ExtractThemes

ThemeSpec == ThemeInit /\ [][ThemeNext]_vars

-----------------------------------------------------------------------------
(* ExplainSpec: find_similar_stories_with_embeddings over stories that     *)
(* have text, one call on each collection; the process iterates a set of   *)
(* str in an order fixed by its hash seed.                                 *)

\* approved stories with their text fields
TextStory(id) ==
    CASE id = 11 -> [_id |-> id, status |-> "approved",
                     embedding |-> PyList(<<3, 19, 5, 2, 1>>),
                     challenge |-> PyStr("could not sleep"),
                     experience |-> PyStr("felt alone"),
                     key_symptoms |-> PyList(<<PyStr("anxiety")>>)]
      [] id = 12 -> [_id |-> id, status |-> "approved",
                     embedding |-> PyList(<<1, 19, 6, 1, 1>>),
                     challenge |-> PyStr("Feeding the baby")]
      [] id = 13 -> [_id |-> id, status |-> "approved",
                     embedding |-> PyList(<<3, 19, 5, 2, 1>>)]
      [] OTHER   -> [_id |-> id, status |-> "approved",
                     embedding |-> PyList(<<1, 19, 6, 1, 1>>),
                     challenge |-> PyStr("so tired"),
                     key_symptoms |-> PyList(<<PyNone>>)]

TextStoryIds == 11..14

ExplainTexts ==
    {"I feel alone and tired", "my baby is not feeding, so scared", "hello there", "q1"}

Reverse(seq) == [i \in 1..Len(seq) |-> seq[Len(seq) + 1 - i]]

HashOrders == {DictOrder, Reverse(DictOrder)}

ExplainInit ==
    /\ model = "primary"
    /\ hash_order \in HashOrders
    /\ requests = <<>>
    /\ running = 0
    /\ log = <<>>
    /\ users = <<>>
    /\ approved_stories \in {[i \in 1..Len(ids) |-> TextStory(ids[i])] :
                               ids \in InjectiveSeqs(TextStoryIds, MaxExplained)}
    /\ story_data = <<>>
    /\ pending_stories = <<>>
    /\ rejected_stories = <<>>
    /\ lastOp = "none"
    /\ lastArgs = <<>>
    /\ lastResult = <<>>
    /\ lastRaised = FALSE
    /\ lastEncoded = FALSE
    /\ inferenceFailed = FALSE
    /\ similarities = <<>>
    /\ theme_text = ""

ExplainNext ==
    /\ lastOp = "none"
    /\ FindSimilarStories(ExplainTexts, {DefaultTopK}, {DefaultMinSimilarity}, {"ok"})

ExplainSpec == ExplainInit /\ [][ExplainNext]_vars

-----------------------------------------------------------------------------
(* PipelineSpec: one call of one function of the pipeline, on a model that *)
(* is loaded or not, with an encode call and a cursor that work or fail.   *)

\* what a search can meet: the outcomes of encode, and a cursor that raises
SearchOutcomes == EncodeOutcomes \cup {"cursor"}

\* a story as generate_recovery_story builds it, one whose symptoms cannot
\* be joined, and an empty document
PipelineStories ==
    {StoryData("q1"),
     With(StoryData("q1"), "key_symptoms", PyList(<<PyNone>>)),
     DocOf([challenge |-> Absent])}

\* stored documents: null, empty and wrong-length embeddings, and a story
\* with text
PipelineDoc(id) == IF id \in TextStoryIds THEN TextStory(id) ELSE StoryDoc(id, "approved")

PipelineInit ==
    /\ model \in {"primary", "fallback", "none"}
    /\ story_data \in PipelineStories
    /\ approved_stories \in {[i \in 1..Len(ids) |-> PipelineDoc(ids[i])] :
                               ids \in InjectiveSeqs({3, 5, 6, 11}, MaxExplained)}
    /\ pending_stories = <<>>
    /\ rejected_stories = <<>>
    /\ lastOp = "none"
    /\ lastArgs = <<>>
    /\ lastResult = <<>>
    /\ lastRaised = FALSE
    /\ lastEncoded = FALSE
    /\ inferenceFailed = FALSE
    /\ similarities = <<>>
    /\ theme_text = ""
    /\ hash_order = DictOrder
    /\ requests = <<>>
    /\ running = 0
    /\ log = <<>>
    /\ users = <<>>

PipelineNext ==
    /\ lastOp = "none"
    /\ \/ GenerateEmbedding
       \/ ComposeText
       \/ CreateStoryWithEmbedding
       \/ FindSimilarStories(Texts, {DefaultTopK}, {DefaultMinSimilarity}, SearchOutcomes)

PipelineSpec == PipelineInit /\ [][PipelineNext]_vars

-----------------------------------------------------------------------------
(* What the claims speak of *)

\* the last operation was a find-similar call
Searched == lastOp = "find_similar"

\* the call got a query vector
Scored == Searched /\ model # "none" /\ lastArgs.outcome = "ok"

QueryVector == Encode(lastArgs.input_text)

\* a candidate with a usable vector: present, not null, not empty, as long as the query's
Usable(story) ==
    /\ "embedding" \in DOMAIN story
    /\ story["embedding"].t = "list"
    /\ Len(story["embedding"].v) > 0
    /\ Len(story["embedding"].v) = Len(QueryVector)

SimilarityOf(story) == CosineSimilarity(QueryVector, story["embedding"].v)

\* positions, in scan order, of the candidates the reference result keeps
Kept ==
    {i \in 1..Len(approved_stories) :
        /\ approved_stories[i]["status"] = "approved"
        /\ Usable(approved_stories[i])
        /\ SimilarityOf(approved_stories[i]) >= lastArgs.min_similarity}

\* position in the scanned collection of a returned story
PositionOf(item) ==
    CHOOSE i \in 1..Len(approved_stories) : Str(approved_stories[i]["_id"]) = item.story["_id"]

Min(a, b) == IF a < b THEN a ELSE b

-----------------------------------------------------------------------------
(* C1 *)

\* C1: the returned list is the reference result: its entries are distinct kept
\* candidates with their cosine similarity, in non-increasing similarity, there
\* are min(top_k, number kept) of them, and no kept candidate left out scores
\* higher than a returned one; on docA, docB, docC, docD with top_k = 2 and
\* min_similarity = 0.1 it is [docA (0.82), docB (0.15)].
C1_ReferenceResult ==
    (Scored /\ lastArgs.top_k >= 0) =>
        /\ ~lastRaised
        /\ Len(lastResult) = Min(lastArgs.top_k, Cardinality(Kept))
        /\ \A k \in 1..Len(lastResult) :
              \E i \in Kept :
                 /\ lastResult[k].story["_id"] = Str(approved_stories[i]["_id"])
                 /\ lastResult[k].similarity = SimilarityOf(approved_stories[i])
        /\ \A k, l \in 1..Len(lastResult) :
              k < l => /\ lastResult[k].similarity >= lastResult[l].similarity
                       /\ lastResult[k].story["_id"] # lastResult[l].story["_id"]
        /\ \A i \in Kept, k \in 1..Len(lastResult) :
              (\A l \in 1..Len(lastResult) :
                  lastResult[l].story["_id"] # Str(approved_stories[i]["_id"]))
              => SimilarityOf(approved_stories[i]) <= lastResult[k].similarity
        /\ (/\ [i \in 1..Len(approved_stories) |-> approved_stories[i]["_id"]] = <<1, 2, 3, 4>>
            /\ lastArgs.input_text = "q1"
            /\ lastArgs.top_k = 2
            /\ lastArgs.min_similarity = 10)
           => /\ [k \in 1..Len(lastResult) |-> lastResult[k].story["_id"]] = <<"1", "2">>
              /\ [k \in 1..Len(lastResult) |-> lastResult[k].similarity] = <<82, 15>>

\* the example of the specification has run
C1_Witness ==
    /\ Scored
    /\ [i \in 1..Len(approved_stories) |-> approved_stories[i]["_id"]] = <<1, 2, 3, 4>>
    /\ lastArgs.input_text = "q1"
    /\ lastArgs.top_k = 2
    /\ lastArgs.min_similarity = 10
    /\ Len(lastResult) = 2

-----------------------------------------------------------------------------
(* C2 *)

\* C2: every returned similarity is >= min_similarity, and the threshold is
\* inclusive: a candidate scoring exactly min_similarity is retained in the
\* list of similar stories, and returned when top_k leaves room for all of them.
C2_ThresholdInclusive ==
    Searched =>
        /\ \A k \in 1..Len(lastResult) : lastResult[k].similarity >= lastArgs.min_similarity
        /\ Scored =>
             \A i \in 1..Len(approved_stories) :
                (/\ Usable(approved_stories[i])
                 /\ SimilarityOf(approved_stories[i]) = lastArgs.min_similarity)
                => /\ \E k \in 1..Len(similarities) :
                        similarities[k].story = approved_stories[i]
                   /\ lastArgs.top_k >= Len(similarities)
                        => \E k \in 1..Len(lastResult) :
                              lastResult[k].story["_id"] = Str(approved_stories[i]["_id"])

\* a story scoring exactly the threshold was returned
C2_Witness ==
    /\ Scored
    /\ \E k \in 1..Len(lastResult) : lastResult[k].similarity = lastArgs.min_similarity

-----------------------------------------------------------------------------
(* C3 *)

\* C3 as stated: for every integer top_k, also 0 and negative ones, the
\* result is no longer than top_k and no longer than the number of candidates
\* with a valid vector that meet the threshold.
C3_AsStated ==
    Searched =>
        /\ Len(lastResult) <= lastArgs.top_k
        /\ Scored => Len(lastResult) <= Cardinality(Kept)

\* C3 amended: for every top_k >= 0 the result is no longer than top_k, and
\* for every integer top_k it is no longer than the number of candidates with
\* a valid vector that meet the threshold.
C3_Cardinality ==
    Searched =>
        /\ lastArgs.top_k >= 0 => Len(lastResult) <= lastArgs.top_k
        /\ Scored => Len(lastResult) <= Cardinality(Kept)

\* top_k cut the list: more candidates were kept than returned
C3_Witness ==
    /\ Scored
    /\ lastArgs.top_k > 0
    /\ Cardinality(Kept) > lastArgs.top_k
    /\ Len(lastResult) = lastArgs.top_k

-----------------------------------------------------------------------------
(* C4 *)

\* C4: the results are in non-increasing similarity, and results of equal
\* similarity are in the order of the scan; so the order is fixed by the
\* query and the collection alone.
C4_StableOrder ==
    Searched =>
        \A k, l \in 1..Len(lastResult) :
            k < l =>
                /\ lastResult[k].similarity >= lastResult[l].similarity
                /\ lastResult[k].similarity = lastResult[l].similarity
                     => PositionOf(lastResult[k]) < PositionOf(lastResult[l])

\* two stories of equal similarity were returned, the later-scanned one second
C4_Witness ==
    /\ Scored
    /\ \E k, l \in 1..Len(lastResult) :
          /\ k < l
          /\ lastResult[k].similarity = lastResult[l].similarity
          /\ lastResult[l].story["_id"] = "2"

-----------------------------------------------------------------------------
(* C5 *)

ValidOnly(collection) == SelectSeq(collection, Usable)

Malformed(kind) ==
    \E i \in 1..Len(approved_stories) :
        approved_stories[i]["embedding"] = kind

\* C5: a scan over a collection that mixes null, empty and wrong-length
\* embeddings with valid ones raises nothing and returns what the scan of the
\* valid documents alone returns.
C5_MalformedSkipped ==
    Scored =>
        /\ ~lastRaised
        /\ lastResult =
             FormatResults(TakeTopK(SortBySimilarity(
                 ScanFrom(Cursor(ValidOnly(approved_stories)), 1, <<>>,
                          QueryVector, lastArgs.min_similarity)), lastArgs.top_k),
                 lastArgs.input_text)
        /\ \A i \in Kept : lastArgs.top_k >= Cardinality(Kept) =>
              \E k \in 1..Len(lastResult) :
                  lastResult[k].story["_id"] = Str(approved_stories[i]["_id"])

\* null, empty and wrong-length embeddings were scanned before a valid story,
\* which was returned
C5_Witness ==
    /\ Scored
    /\ Len(approved_stories) = 4
    /\ Malformed(PyNone)
    /\ Malformed(PyList(<<>>))
    /\ Malformed(PyList(<<1, 0>>))
    /\ Usable(approved_stories[4])
    /\ Len(lastResult) = 1

-----------------------------------------------------------------------------
(* C6 *)

\* C6: when the query embedding cannot be produced (no model, or encode
\* raises or returns None) the search returns the empty list and raises
\* nothing.
C6_NoQueryVector ==
    (Searched /\ ~Scored) => (lastResult = <<>> /\ ~lastRaised)

\* encode raised although an approved story with an embedding was stored
C6_Witness ==
    /\ Searched
    /\ model # "none"
    /\ lastArgs.outcome = "raise"
    /\ Len(Cursor(approved_stories)) > 0
    /\ lastResult = <<>>

-----------------------------------------------------------------------------
(* C7 *)

\* C7: a find-similar call with an empty or whitespace-only query returns the
\* empty list and raises nothing, whatever is stored.
C7_BlankQueryEmpty ==
    (Searched /\ IsBlank(lastArgs.input_text)) => (lastResult = <<>> /\ ~lastRaised)

-----------------------------------------------------------------------------
(* C8 *)

\* C8: no returned story carries the key "embedding".
C8_NoEmbeddingReturned ==
    Searched => \A k \in 1..Len(lastResult) : "embedding" \notin DOMAIN lastResult[k].story

\* a story stored with an embedding was returned
C8_Witness ==
    /\ Scored
    /\ Len(lastResult) > 0
    /\ "embedding" \in DOMAIN approved_stories[PositionOf(lastResult[1])]

-----------------------------------------------------------------------------
(* C9 *)

InCollection(collection, id) ==
    \E i \in 1..Len(collection) : Str(collection[i]["_id"]) = id

\* C9: every story a find-similar call returns is a record of the approved
\* collection in state "approved"; it is neither waiting in pending_stories
\* nor in rejected_stories.
C9_OnlyApproved ==
    Searched =>
        \A k \in 1..Len(lastResult) :
            /\ lastResult[k].story["status"] = "approved"
            /\ InCollection(approved_stories, lastResult[k].story["_id"])
            /\ ~InCollection(pending_stories, lastResult[k].story["_id"])
            /\ ~InCollection(rejected_stories, lastResult[k].story["_id"])

\* one story was approved and returned while another one, with an embedding
\* as good, was rejected or still waits
C9_Witness ==
    /\ Searched
    /\ Len(lastResult) = 1
    /\ Len(pending_stories) + Len(rejected_stories) > 0

-----------------------------------------------------------------------------
(* C10 *)

\* C10: generate_embedding on an empty or whitespace-only string returns the
\* empty vector, raises nothing and does not invoke encode.
C10_BlankTextNoEncode ==
    (lastOp = "generate_embedding" /\ IsBlank(lastArgs.text)) =>
        (lastResult = <<>> /\ ~lastRaised /\ ~lastEncoded)

\* a whitespace-only text was given to a loaded model
C10_Witness ==
    /\ lastOp = "generate_embedding"
    /\ lastArgs.text = " "
    /\ model # "none"
    /\ lastResult = <<>>

-----------------------------------------------------------------------------
(* C11.  When neither the primary nor the fallback model could be loaded    *)
(* the provider stays disabled: in every later state model is still        *)
(* "none", a call of generate_embedding returned [] and a similarity       *)
(* search returned [], neither of them by an exception, and no call        *)
(* reached model.encode.                                                   *)
C11_DisabledForLife ==
    /\ [](model = "none" =>
            /\ lastOp \in {"generate_embedding", "find_similar"} =>
                   lastResult = <<>> /\ ~lastRaised
            /\ ~lastEncoded)
    /\ [][model = "none" => model' = "none"]_vars

\* a search with a scorable text on a disabled provider, over a collection
\* that holds a story it would have matched
C11_Witness ==
    /\ model = "none"
    /\ lastOp = "find_similar"
    /\ lastArgs.input_text = "q1"
    /\ lastArgs.outcome = "ok"
    /\ \E i \in 1..Len(approved_stories) :
           /\ Usable(approved_stories[i])
           /\ SimilarityOf(approved_stories[i]) >= lastArgs.min_similarity
    /\ lastResult = <<>>

-----------------------------------------------------------------------------
(* C12.  A failure of model.encode inside generate_embedding ends that     *)
(* call with [] and no exception and leaves the model loaded; a call that  *)
(* comes after such a failure, with a text that is not blank and an encode *)
(* that works, returns the vector of the text, which is not empty.         *)
C12_InferenceErrorIsPerCall ==
    lastOp = "generate_embedding" =>
        /\ (lastEncoded /\ lastArgs.outcome # "ok") =>
               lastResult = <<>> /\ ~lastRaised /\ model # "none"
        /\ (inferenceFailed /\ ~IsBlank(lastArgs.text) /\ lastArgs.outcome = "ok") =>
               lastResult = Encode(lastArgs.text) /\ Len(lastResult) > 0

\* a successful call after a failed one
C12_Witness ==
    /\ lastOp = "generate_embedding"
    /\ inferenceFailed
    /\ lastArgs.outcome = "ok"
    /\ lastEncoded
    /\ Len(lastResult) > 0

-----------------------------------------------------------------------------
(* Claims on the composed text and on create_story_with_embedding *)

Composed == lastOp = "compose"

Prepared == lastOp = "create_story_with_embedding"

\* the field has a value that is neither None nor empty
Present(doc, field) ==
    field \in DOMAIN doc /\ doc[field] \notin {PyNone, PyStr(""), PyList(<<>>)}

\* every symptom tag is a str
WellFormed(doc) ==
    Present(doc, "key_symptoms") =>
        \A i \in 1..Len(doc["key_symptoms"].v) : doc["key_symptoms"].v[i].t = "str"

\* the last k characters of text
Suffix(text, k) == SubSeq(text, Len(text) - k + 1, Len(text))

-----------------------------------------------------------------------------
(* C13.  create_story_with_embedding ends without an exception and returns *)
(* the document it was given with every field as it was.  When no vector   *)
(* was generated (model not loaded, composed text empty or the error text, *)
(* encode raised or returned None) the returned document reads             *)
(* embedding = None; when one was generated the document carries it.       *)
EmbeddingGenerated(doc, outcome) ==
    /\ model # "none"
    /\ WellFormed(doc)
    /\ \E field \in {"challenge", "experience", "solution", "advice", "key_symptoms",
                     "generated_story"} : Present(doc, field)
    /\ outcome = "ok"

C13_NeverRejects ==
    Prepared =>
        /\ ~lastRaised
        /\ story_data = lastResult
        /\ DOMAIN lastResult \subseteq DOMAIN lastArgs.story_data \cup {"embedding"}
        /\ \A field \in DOMAIN lastArgs.story_data :
              field \in DOMAIN lastResult /\ lastResult[field] = lastArgs.story_data[field]
        /\ IF EmbeddingGenerated(lastArgs.story_data, lastArgs.outcome)
           THEN /\ Get(lastResult, "embedding").t = "list"
                /\ Len(lastResult["embedding"].v) > 0
           ELSE Get(lastResult, "embedding") = PyNone

\* a story with all its fields whose encode call raised
C13_Witness ==
    /\ Prepared
    /\ model = "primary"
    /\ lastArgs.outcome = "raise"
    /\ lastEncoded
    /\ \A field \in {"challenge", "experience", "solution", "advice", "key_symptoms",
                     "generated_story"} : Present(lastResult, field)
    /\ "embedding" \in DOMAIN lastResult
    /\ lastResult["embedding"] = PyNone

-----------------------------------------------------------------------------
(* C16.  The composed text is the parts "<Label>: <value>" of the fields   *)
(* that have a non-empty value, in the order challenge, experience,        *)
(* solution, advice, symptoms, narrative, joined with " | "; a field that  *)
(* is missing, None or empty adds nothing.  The symptoms are shown joined  *)
(* with ", " and the narrative as C17 says.  The text is a function of the *)
(* field values alone.                                                     *)
Shown(doc, field) ==
    CASE field = "key_symptoms"    -> Join(Strings(doc[field].v), ", ")
      [] field = "generated_story" -> Truncate(doc[field].v)
      [] OTHER                     -> doc[field].v

Rendered(doc, label, field) ==
    IF Present(doc, field) THEN << label \o ": " \o Shown(doc, field) >> ELSE <<>>

C16_LabelledParts ==
    (Composed /\ WellFormed(lastArgs.story_doc)) =>
        LET doc == lastArgs.story_doc IN
        lastResult = Join(Rendered(doc, "Challenge", "challenge") \o
                          Rendered(doc, "Experience", "experience") \o
                          Rendered(doc, "Solution", "solution") \o
                          Rendered(doc, "Advice", "advice") \o
                          Rendered(doc, "Symptoms", "key_symptoms") \o
                          Rendered(doc, "Story", "generated_story"), " | ")

\* all six fields present, and the text written out
C16_Witness ==
    /\ Composed
    /\ lastResult = "Challenge: no sleep | Experience: felt alone | Solution: therapy | Advice: ask for help | Symptoms: anxiety, fatigue | Story: 0"

-----------------------------------------------------------------------------
(* C17.  The composed text of a story with a narrative ends with "Story: " *)
(* and the narrative: its first 500 characters and then "..." when it is   *)
(* longer than 500 characters, the whole narrative and nothing after it    *)
(* otherwise.                                                              *)
C17_NarrativeTruncated ==
    (Composed /\ WellFormed(lastArgs.story_doc)
              /\ Present(lastArgs.story_doc, "generated_story")) =>
        LET narrative == lastArgs.story_doc["generated_story"].v
            expected  == IF Len(narrative) > NarrativeLimit
                         THEN "Story: " \o SubSeq(narrative, 1, NarrativeLimit) \o "..."
                         ELSE "Story: " \o narrative
        IN  /\ Len(lastResult) >= Len(expected)
            /\ Suffix(lastResult, Len(expected)) = expected

\* a narrative one character over the limit, cut and marked
C17_Witness ==
    /\ Composed
    /\ Present(lastArgs.story_doc, "generated_story")
    /\ Len(lastArgs.story_doc["generated_story"].v) = NarrativeLimit + 1
    /\ Len(lastResult) = 7 + NarrativeLimit + 3
    /\ Suffix(lastResult, 3) = "..."

-----------------------------------------------------------------------------
(* C18.  On a story some of whose fields are missing or None the composer  *)
(* ends without an exception and without the error text: it returns what   *)
(* it returns for the story that has only the fields with a value.         *)
WithoutNone(doc) == [k \in {key \in DOMAIN doc : doc[key] # PyNone} |-> doc[k]]

OnlyPresent(doc) == [k \in {key \in DOMAIN doc : Present(doc, key)} |-> doc[k]]

C18_MissingOrNoneTolerated ==
    (Composed /\ WellFormed(lastArgs.story_doc)) =>
        /\ ~lastRaised
        /\ lastResult # ErrorText
        /\ lastResult = CreateStoryEmbeddingText(OnlyPresent(lastArgs.story_doc))
        /\ lastResult = CreateStoryEmbeddingText(WithoutNone(lastArgs.story_doc))

\* a story without a challenge key, with advice None, and a text composed
\* from the experience that is there
C18_Witness ==
    /\ Composed
    /\ "challenge" \notin DOMAIN lastArgs.story_doc
    /\ "advice" \in DOMAIN lastArgs.story_doc
    /\ lastArgs.story_doc["advice"] = PyNone
    /\ "generated_story" \notin DOMAIN lastArgs.story_doc
    /\ lastResult = "Experience: felt alone"

-----------------------------------------------------------------------------
(* Claims on the submission of a story *)

\* the last operation was a submission that passed the validation and the
\* crisis check
Submitted == lastOp = "submit" /\ ~IsBlank(lastArgs.challenge) /\ ~lastArgs.crisis

\* pending_stories holds the submitted story, with this embedding
PersistedWith(embedding) ==
    \E i \in 1..Len(pending_stories) :
        /\ Get(pending_stories[i], "challenge") = PyStr(lastArgs.challenge)
        /\ Get(pending_stories[i], "embedding") = embedding

(* C14.  After a submission that passed the validation and the crisis      *)
(* check and for which a vector was generated, pending_stories holds the   *)
(* story with that vector as its embedding.                                *)
C14_EmbeddingPersisted ==
    (Submitted /\ Truthy(Get(story_data, "embedding"))) =>
        PersistedWith(story_data["embedding"])

(* C15.  After a submission that passed the validation and the crisis      *)
(* check and for which no vector was generated, pending_stories holds the  *)
(* story with embedding None and the handler answered with success, not    *)
(* with an error.                                                          *)
C15_PersistedWithoutEmbedding ==
    (Submitted /\ ~Truthy(Get(story_data, "embedding"))) =>
        /\ ~lastRaised
        /\ lastResult = 200
        /\ PersistedWith(PyNone)

-----------------------------------------------------------------------------
(* Claims on the themes of a text *)

Extracted == lastOp = "extract_key_themes"

\* the themes of the returned list
ThemeSet == {lastResult[i] : i \in 1..Len(lastResult)}

\* the keywords of a theme
KeywordsOf(theme) ==
    LET entry == CHOOSE e \in {ThemeKeywords[i] : i \in 1..Len(ThemeKeywords)} : e.theme = theme
    IN  {entry.keywords[k] : k \in 1..Len(entry.keywords)}

AllThemes == {ThemeKeywords[i].theme : i \in 1..Len(ThemeKeywords)}

(* C19.  _extract_key_themes returns a theme exactly when one of the       *)
(* keywords of that theme is a substring of the text in lower case, each   *)
(* theme once; for the empty text and for a text without any keyword it    *)
(* returns the empty list; it ends without an exception.                   *)
C19_ThemeIffKeyword ==
    Extracted =>
        /\ ~lastRaised
        /\ \A theme \in AllThemes :
              theme \in ThemeSet <=>
                  \E keyword \in KeywordsOf(theme) : Contains(Lower(lastArgs.text), keyword)
        /\ ThemeSet \subseteq AllThemes
        /\ Len(lastResult) = Cardinality(ThemeSet)
        /\ lastArgs.text = "" => lastResult = <<>>

\* upper-case keywords, and a keyword inside another word: "scared" holds
\* "care"
C19_Witness ==
    /\ Extracted
    /\ lastArgs.text = "so scared and LOST"
    /\ lastResult = <<"anxiety", "identity", "baby">>

(* C20.  The themes of "I haven't slept in days and feel so alone" include *)
(* sleep and isolation.                                                    *)
C20_SleepAndIsolation ==
    (Extracted /\ lastArgs.text = ExampleText) =>
        {"sleep", "isolation"} \subseteq ThemeSet

-----------------------------------------------------------------------------
(* C21.  Every result of a search carries an explanation: when the themes  *)
(* of the query text and the themes of the composed text of the story have *)
(* members in common it is "Similar experiences with: " and exactly those  *)
(* themes, each once, joined with ", " in some order; when they have none  *)
(* it is "Similar emotional journey and experiences".                      *)
ThemesOfText(text) ==
    {theme \in AllThemes : \E keyword \in KeywordsOf(theme) : Contains(Lower(text), keyword)}

\* the sequences that list each member of S once
Listings(S) == {seq \in InjectiveSeqs(S, Cardinality(S)) : Len(seq) = Cardinality(S)}

C21_ExplanationForms ==
    Searched =>
        \A k \in 1..Len(lastResult) :
            LET common == ThemesOfText(lastArgs.input_text) \cap
                          ThemesOfText(CreateStoryEmbeddingText(lastResult[k].story))
            IN  /\ "match_explanation" \in DOMAIN lastResult[k]
                /\ IF common = {}
                   THEN lastResult[k].match_explanation =
                            "Similar emotional journey and experiences"
                   ELSE \E listing \in Listings(common) :
                            lastResult[k].match_explanation =
                                "Similar experiences with: " \o Join(listing, ", ")

\* two common themes, listed in the order of this process, and a story
\* without text in the same result
C21_Witness ==
    /\ Searched
    /\ lastArgs.input_text = "I feel alone and tired"
    /\ Len(lastResult) = 2
    /\ lastResult[1].story["_id"] = "11"
    /\ lastResult[1].match_explanation = "Similar experiences with: sleep, isolation"
    /\ lastResult[2].match_explanation = "Similar emotional journey and experiences"

-----------------------------------------------------------------------------
(* C22.  Each function of the pipeline ends with a value and not with an   *)
(* exception, whatever encode and the cursor do: generate_embedding with a *)
(* list, [] when encode failed; the composer with a str, the error text    *)
(* when the join raised; create_story_with_embedding with the story, whose *)
(* embedding reads None when no vector was made; the search with a list,   *)
(* [] when encode or the cursor failed.                                    *)
C22_NoExceptionEscapes ==
    /\ lastOp \in {"generate_embedding", "compose", "create_story_with_embedding",
                   "find_similar"} => ~lastRaised
    /\ (lastOp = "generate_embedding" /\ lastArgs.outcome # "ok") => lastResult = <<>>
    /\ (lastOp = "find_similar" /\ lastArgs.outcome # "ok") => lastResult = <<>>
    /\ (Composed /\ ~WellFormed(lastArgs.story_doc)) => lastResult = ErrorText
    /\ (Prepared /\ (lastArgs.outcome # "ok" \/ ~WellFormed(lastArgs.story_data))) =>
           /\ Get(lastResult, "embedding") = PyNone
           /\ \A field \in DOMAIN lastArgs.story_data :
                 lastResult[field] = lastArgs.story_data[field]

\* the cursor raised under a search whose encode call had worked, over a
\* collection with a story that matches
C22_Witness ==
    /\ Searched
    /\ lastArgs.outcome = "cursor"
    /\ model # "none"
    /\ lastEncoded
    /\ \E i \in 1..Len(approved_stories) : approved_stories[i]["_id"] = 11
    /\ lastResult = <<>>
    /\ ~lastRaised

-----------------------------------------------------------------------------
(* C23.  After create_story_embedding_text the story document is what it   *)
(* was.  After create_story_with_embedding the document has the keys it    *)
(* had, with their values, and at most the key "embedding" more: the       *)
(* narrative keeps its full length, beyond 500 characters too.             *)
C23_OnlyEmbeddingChanges ==
    /\ Composed => story_data = lastArgs.story_doc
    /\ Prepared =>
          /\ DOMAIN story_data \ {"embedding"} = DOMAIN lastArgs.story_data \ {"embedding"}
          /\ \A field \in DOMAIN lastArgs.story_data \ {"embedding"} :
                story_data[field] = lastArgs.story_data[field]
          /\ Present(lastArgs.story_data, "generated_story") =>
                Len(story_data["generated_story"].v) =
                    Len(lastArgs.story_data["generated_story"].v)

\* a story with a narrative over the limit got its embedding and kept the
\* narrative
C23_Witness ==
    /\ Prepared
    /\ Truthy(Get(story_data, "embedding"))
    /\ Present(story_data, "generated_story")
    /\ Len(story_data["generated_story"].v) = NarrativeLimit + 1
    /\ Len(lastArgs.story_data["generated_story"].v) = NarrativeLimit + 1

-----------------------------------------------------------------------------
(* C24.  A candidate whose stored vector is the zero vector never appears  *)
(* in the results of find_similar_stories_with_embeddings, whatever        *)
(* min_similarity is, 0 included.                                          *)
ZeroVector(story) ==
    /\ Usable(story)
    /\ \A i \in 1..Len(story["embedding"].v) : story["embedding"].v[i] = 0

C24_ZeroVectorSkipped ==
    Scored =>
        \A n \in 1..Len(lastResult) : ~ZeroVector(approved_stories[PositionOf(lastResult[n])])

-----------------------------------------------------------------------------
(* ServeSpec: the server process handling concurrent requests.             *)
(* main.py starts one uvicorn process with one event loop.  Every handler  *)
(* is a coroutine: the loop runs one coroutine at a time and moves to      *)
(* another one only where the running one awaits I/O.  A request waits on  *)
(* the database while it is authenticated and while its cursor is read.    *)

MaxRequests == 3

Requests == 1..MaxRequests

\* POST /stories/find-similar and POST /stories/submit
Endpoints == {"find_similar", "submit"}

\* position of request
At(request, pc) == requests[request].pc = pc

Goto(request, pc) == requests' = [requests EXCEPT ![request].pc = pc]

\* the same with the call handed to another thread and awaited
LoopHolderDuringEncodeAwaited(request) == 0

\* who holds the event loop while request's encode call runs: model.encode
\* is an ordinary call, the coroutine does not await during it
LoopHolderDuringEncode(request) == request

\* what the steps of a request leave alone
ServeFrame ==
    UNCHANGED <<model, story_data, pending_stories, approved_stories, rejected_stories,
                lastOp, lastArgs, lastResult, lastRaised, lastEncoded, inferenceFailed,
                similarities, theme_text, hash_order, log, users>>

\* the request arrives; its user is looked up in the database
Receive(request, endpoint) ==
    /\ At(request, "absent")
    /\ requests' = [requests EXCEPT ![request] = [endpoint |-> endpoint, pc |-> "authenticating"]]
    /\ UNCHANGED running
    /\ ServeFrame

\* the lookup is over and the loop is free: the handler body starts
Enter(request) ==
    /\ running = 0
    /\ At(request, "authenticating")
    /\ running' = request
    /\ Goto(request, "handler")
    /\ ServeFrame

\* the handler ends before the matcher is asked: the text is blank or too
\* short, or the submission has crisis content
Refuse(request) ==
    /\ running = request
    /\ At(request, "handler")
    /\ running' = 0
    /\ Goto(request, "done")
    /\ ServeFrame

\* the matcher has no model: no encode call
Disabled(request) ==
    /\ running = request
    /\ At(request, "handler")
    /\ model = "none"
    /\ running' = 0
    /\ Goto(request, "done")
    /\ ServeFrame

\* self.model.encode(...) is called
EncodeBegin(request) ==
    /\ running = request
    /\ At(request, "handler")
    /\ model # "none"
    /\ running' = LoopHolderDuringEncode(request)
    /\ Goto(request, "encode")
    /\ ServeFrame

\* the encode call is over.  A search that has its vector goes on to read
\* the cursor and awaits it; everything else is at its end
EncodeEnd(request, outcome) ==
    /\ running = LoopHolderDuringEncode(request)
    /\ At(request, "encode")
    /\ running' = 0
    /\ IF requests[request].endpoint = "find_similar" /\ outcome = "ok"
       THEN Goto(request, "scan")
       ELSE Goto(request, "done")
    /\ ServeFrame

\* the cursor is exhausted: sort, format and return
ScanEnd(request) ==
    /\ running = 0
    /\ At(request, "scan")
    /\ Goto(request, "done")
    /\ UNCHANGED running
    /\ ServeFrame

ServeInit ==
    /\ model \in {"primary", "fallback", "none"}
    /\ story_data = <<>>
    /\ approved_stories = <<>>
    /\ pending_stories = <<>>
    /\ rejected_stories = <<>>
    /\ lastOp = "none"
    /\ lastArgs = <<>>
    /\ lastResult = <<>>
    /\ lastRaised = FALSE
    /\ lastEncoded = FALSE
    /\ inferenceFailed = FALSE
    /\ similarities = <<>>
    /\ theme_text = ""
    /\ hash_order = DictOrder
    /\ requests = [request \in Requests |-> [endpoint |-> "none", pc |-> "absent"]]
    /\ running = 0
    /\ log = <<>>
    /\ users = <<>>

ServeNext ==
    \E request \in Requests :
        \/ \E endpoint \in Endpoints : Receive(request, endpoint)
        \/ Enter(request)
        \/ Refuse(request)
        \/ Disabled(request)
        \/ EncodeBegin(request)
        \/ \E outcome \in EncodeOutcomes : EncodeEnd(request, outcome)
        \/ ScanEnd(request)

ServeSpec == ServeInit /\ [][ServeNext]_vars

\* the requests whose encode call is in progress
Encoding == {request \in Requests : At(request, "encode")}

(* C25.  At no time are two encode calls in progress: whatever the order   *)
(* in which concurrent searches and submissions are served, at most one    *)
(* request is inside model.encode.                                         *)
C25_OneEncodeAtATime == Cardinality(Encoding) <= 1

\* one request encodes while another is ready to run and a third, which has
\* encoded already, waits for its cursor
C25_Witness ==
    \E r1, r2, r3 \in Requests :
        /\ At(r1, "encode") /\ requests[r1].endpoint = "submit"
        /\ At(r2, "authenticating") /\ requests[r2].endpoint = "find_similar"
        /\ At(r3, "scan")

-----------------------------------------------------------------------------
\* the documents of the three story collections
StoredStories ==
    {pending_stories[i] : i \in 1..Len(pending_stories)}
        \cup {approved_stories[i] : i \in 1..Len(approved_stories)}
        \cup {rejected_stories[i] : i \in 1..Len(rejected_stories)}

\* the ids of the documents and the embedding stored with each
StoredEmbeddings(stories) == {<<story["_id"], Get(story, "embedding")>> : story \in stories}

(* C26.  The embedding of a story never changes after the story has been   *)
(* created: every step leaves each stored id with the embedding it had,    *)
(* approve_story and reject_story write the copy under the id and with the *)
(* embedding of the pending document, and a find-similar call leaves the   *)
(* three collections as they were.                                         *)
C26_EmbeddingImmutable ==
    [][/\ StoredEmbeddings(StoredStories)' = StoredEmbeddings(StoredStories)
       /\ lastOp' = "find_similar" =>
             UNCHANGED <<pending_stories, approved_stories, rejected_stories>>]_vars

\* a story with a vector was approved, another one rejected, and a search
\* has returned the approved one without its vector
C26_Witness ==
    /\ Searched
    /\ Len(lastResult) > 0
    /\ \A n \in 1..Len(lastResult) : "embedding" \notin DOMAIN lastResult[n].story
    /\ \E i \in 1..Len(approved_stories) : Truthy(Get(approved_stories[i], "embedding"))
    /\ \E i \in 1..Len(rejected_stories) : Truthy(Get(rejected_stories[i], "embedding"))

-----------------------------------------------------------------------------
(* LogSpec: what the story matcher's logger emits at WARNING and ERROR     *)
(* level, from the constructor on, over calls of generate_embedding and    *)
(* find_similar_stories_with_embeddings on an empty collection.  A record  *)
(* is its message without the interpolated values.                         *)

MaxLog == 5

\* StoryMatcher.__init__ ending with this model
ConstructorLog(loaded) ==
    CASE loaded = "primary"  -> <<>>
      [] loaded = "fallback" -> <<"Error loading model", "Full traceback">>
      [] OTHER               -> <<"Error loading model", "Full traceback",
                                  "Fallback model also failed">>

\* one call of generate_embedding
GenerateEmbeddingLog(text, outcome) ==
    IF model = "none" THEN <<"Model not loaded, cannot generate embedding">>
    ELSE IF IsBlank(text) THEN <<"Empty text provided for embedding">>
    ELSE CASE outcome = "ok"   -> <<>>
           [] outcome = "none" -> <<"Model returned None for embedding">>
           [] OTHER            -> <<"Error generating embedding", "Full traceback">>

\* one call of find_similar_stories_with_embeddings
FindSimilarLog(input_text, outcome) ==
    IF model = "none" THEN <<"Model not loaded, cannot find similar stories">>
    ELSE CASE outcome = "ok"   -> <<>>
           [] outcome = "none" -> <<"Failed to generate input embedding">>
           [] OTHER            -> <<"Error in similarity search", "Full traceback">>

LoggedGenerateEmbedding ==
    \E text \in Texts, outcome \in EncodeOutcomes :
        LET r == GenerateEmbeddingCall(text, outcome) IN
        /\ Len(log) < MaxLog
        /\ Returns("generate_embedding", [text |-> text, outcome |-> outcome],
                   r.result, FALSE, r.encoded)
        /\ model' = IF r.encoded THEN ModelAfterEncode(outcome) ELSE model
        /\ log' = log \o GenerateEmbeddingLog(text, outcome)
        /\ UNCHANGED <<story_data, pending_stories, approved_stories, rejected_stories,
                       similarities, theme_text, hash_order, requests, running, users>>

LoggedFindSimilar ==
    \E input_text \in Texts, outcome \in SearchOutcomes :
        LET r == FindSimilarStoriesWithEmbeddings(input_text, SearchCollection, DefaultTopK,
                                                  DefaultMinSimilarity, outcome)
        IN  /\ Len(log) < MaxLog
            /\ Returns("find_similar",
                       [input_text |-> input_text, top_k |-> DefaultTopK,
                        min_similarity |-> DefaultMinSimilarity, outcome |-> outcome],
                       r.result, r.raised, r.encoded)
            /\ similarities' = r.similarities
            /\ log' = log \o FindSimilarLog(input_text, outcome)
            /\ UNCHANGED <<story_data, model, pending_stories, approved_stories, rejected_stories,
                           theme_text, hash_order, requests, running, users>>

LogInit ==
    /\ model \in {"primary", "fallback", "none"}
    /\ log = ConstructorLog(model)
    /\ story_data = <<>>
    /\ approved_stories = <<>>
    /\ pending_stories = <<>>
    /\ rejected_stories = <<>>
    /\ lastOp = "none"
    /\ lastArgs = <<>>
    /\ lastResult = <<>>
    /\ lastRaised = FALSE
    /\ lastEncoded = FALSE
    /\ inferenceFailed = FALSE
    /\ similarities = <<>>
    /\ theme_text = ""
    /\ hash_order = DictOrder
    /\ requests = <<>>
    /\ running = 0
    /\ users = <<>>

LogNext ==
    \/ LoggedGenerateEmbedding
    \/ LoggedFindSimilar

LogSpec == LogInit /\ [][LogNext]_vars

\* the records that say the matcher has no model
ModelUnavailable ==
    {"Fallback model also failed",
     "Model not loaded, cannot generate embedding",
     "Model not loaded, cannot find similar stories"}

(* C27.  The disabled state is logged once, when the fallback model fails  *)
(* to load: the calls of generate_embedding and of find-similar made while *)
(* the matcher is disabled add no record about the missing model, so the   *)
(* log holds at most one such record.                                      *)
C27_DisabledLoggedOnce ==
    Cardinality({i \in 1..Len(log) : log[i] \in ModelUnavailable}) <= 1

-----------------------------------------------------------------------------
(* ModerationSpec: the moderation workflow with its database operations as *)
(* separate steps.  approve_story and reject_story are find_one on         *)
(* pending_stories, insert_one on the target collection and delete_one on  *)
(* pending_stories, each awaited: other requests run in between.           *)

MaxSubmitted == 2
MaxModerations == 3

Moderations == 1..MaxModerations

\* what the moderation workflow leaves alone
ModerationFrame ==
    UNCHANGED <<model, story_data, similarities, theme_text, hash_order, running, log, users>>

\* a step inside a handler returns nothing yet
NoReturn ==
    UNCHANGED <<lastOp, lastArgs, lastResult, lastRaised, lastEncoded, inferenceFailed>>

RECURSIVE MaxOf(_)
MaxOf(ids) == IF ids = {} THEN 0
              ELSE LET id == CHOOSE x \in ids : TRUE
                       rest == MaxOf(ids \ {id})
                   IN  IF id > rest THEN id ELSE rest

\* the _id insert_one gives a new document: one no stored story has
NextStoryId == 1 + MaxOf({story["_id"] : story \in StoredStories})

\* ModerationDatabase.submit_story_for_review, called with its own parameters
SubmitForReview ==
    \E challenge \in {"q1"} :
        /\ Cardinality({story["_id"] : story \in StoredStories}) < MaxSubmitted
        /\ pending_stories' = InsertOne(pending_stories,
                                        PendingDoc(NextStoryId, StoryData(challenge)))
        /\ Returns("submit_story_for_review", [challenge |-> challenge],
                   [success |-> TRUE, story_id |-> Str(NextStoryId)], FALSE, FALSE)
        /\ UNCHANGED <<approved_stories, rejected_stories, requests>>
        /\ ModerationFrame

\* the filter of the pending endpoint on a document
PendingFilter(story) == story["status"] = "pending_review"

\* cursor.skip(offset).limit(limit)
Page(stories, offset, limit) ==
    SubSeq(stories, offset + 1, Min(Len(stories), offset + limit))

\* routers/moderation.py get_pending_stories: the response
PendingResponse(limit, offset) ==
    LET matching == SelectSeq(pending_stories, PendingFilter)
        stories  == Page(matching, offset, limit)
    IN  [success         |-> TRUE,
         pending_stories |-> [n \in 1..Len(stories) |->
                                 With(Pop(stories[n], "_id"), "id", Str(stories[n]["_id"]))],
         total_count     |-> Len(matching),
         displayed_count |-> Len(stories),
         has_more        |-> (offset + Len(stories)) < Len(matching)]

GetPendingStories ==
    \E limit \in {1, MaxSubmitted}, offset \in {0, 1} :
        /\ Returns("get_pending_stories", [limit |-> limit, offset |-> offset],
                   PendingResponse(limit, offset), FALSE, FALSE)
        /\ UNCHANGED <<pending_stories, approved_stories, rejected_stories, requests>>
        /\ ModerationFrame

\* POST /moderation/approve/{story_id} or /reject/{story_id} arrives
ModerationStart(request, handler, story_id) ==
    /\ At(request, "absent")
    /\ requests' = [requests EXCEPT ![request] =
                       [handler |-> handler, story_id |-> story_id, pc |-> "find_one",
                        story |-> <<>>, status_code |-> 0]]
    /\ UNCHANGED <<pending_stories, approved_stories, rejected_stories>>
    /\ NoReturn
    /\ ModerationFrame

\* story = await pending_stories.find_one({"_id": ObjectId(story_id)})
ModerationFindOne(request) ==
    /\ At(request, "find_one")
    /\ LET i == FindOne(pending_stories, requests[request].story_id) IN
       requests' = [requests EXCEPT ![request] =
                       IF i = 0
                       THEN [@ EXCEPT !.pc = "done", !.status_code = 404]
                       ELSE [@ EXCEPT !.pc = "insert_one", !.story = pending_stories[i]]]
    /\ UNCHANGED <<pending_stories, approved_stories, rejected_stories>>
    /\ NoReturn
    /\ ModerationFrame

\* the document the handler inserts
ModeratedCopy(request) ==
    IF requests[request].handler = "approve"
    THEN ApprovedCopy(requests[request].story)
    ELSE RejectedCopy(requests[request].story)

\* await approved_stories.insert_one(...) or rejected_stories.insert_one(...)
ModerationInsertOne(request) ==
    /\ At(request, "insert_one")
    /\ LET copy   == ModeratedCopy(request)
           target == IF requests[request].handler = "approve"
                     THEN approved_stories ELSE rejected_stories
       IN  IF DuplicateKey(target, copy)
           THEN /\ requests' = [requests EXCEPT ![request].pc = "done",
                                                ![request].status_code = 500]
                /\ UNCHANGED <<approved_stories, rejected_stories>>
           ELSE /\ Goto(request, "delete_one")
                /\ IF requests[request].handler = "approve"
                   THEN /\ approved_stories' = InsertOne(approved_stories, copy)
                        /\ UNCHANGED rejected_stories
                   ELSE /\ rejected_stories' = InsertOne(rejected_stories, copy)
                        /\ UNCHANGED approved_stories
    /\ UNCHANGED pending_stories
    /\ NoReturn
    /\ ModerationFrame

\* await pending_stories.delete_one({"_id": ObjectId(story_id)})
ModerationDeleteOne(request) ==
    /\ At(request, "delete_one")
    /\ pending_stories' = DeleteOne(pending_stories, requests[request].story_id)
    /\ requests' = [requests EXCEPT ![request].pc = "done", ![request].status_code = 200]
    /\ UNCHANGED <<approved_stories, rejected_stories>>
    /\ NoReturn
    /\ ModerationFrame

ModerationInit ==
    /\ model = "primary"
    /\ story_data = <<>>
    /\ approved_stories = <<>>
    /\ pending_stories = <<>>
    /\ rejected_stories = <<>>
    /\ lastOp = "none"
    /\ lastArgs = <<>>
    /\ lastResult = <<>>
    /\ lastRaised = FALSE
    /\ lastEncoded = FALSE
    /\ inferenceFailed = FALSE
    /\ similarities = <<>>
    /\ theme_text = ""
    /\ hash_order = DictOrder
    /\ requests = [request \in Moderations |-> [handler |-> "none", pc |-> "absent"]]
    /\ running = 0
    /\ log = <<>>
    /\ users = <<>>

ModerationNext ==
    \/ SubmitForReview
    \/ GetPendingStories
    \/ \E request \in Moderations :
          \/ \E handler \in {"approve", "reject"}, story_id \in 1..MaxSubmitted :
                ModerationStart(request, handler, story_id)
          \/ ModerationFindOne(request)
          \/ ModerationInsertOne(request)
          \/ ModerationDeleteOne(request)

ModerationSpec == ModerationInit /\ [][ModerationNext]_vars

\* no request is under way
Quiescent == \A request \in Moderations : At(request, "absent") \/ At(request, "done")

\* the stories some request has found in pending_stories
Moderated ==
    {requests[request].story_id : request \in {r \in Moderations : requests[r].pc = "done" /\ requests[r].status_code # 404}}

(* C28.  Whatever the interleaving of the approve and reject requests for  *)
(* a pending story, once all of them have finished the story is not in     *)
(* pending_stories and is in at most one of approved_stories and           *)
(* rejected_stories.                                                       *)
C28_ApprovedXorRejected ==
    Quiescent =>
        \A story_id \in Moderated :
            /\ story_id \notin Ids(pending_stories)
            /\ ~(story_id \in Ids(approved_stories) /\ story_id \in Ids(rejected_stories))

\* the stories submitted for review on which no moderation has acted
AwaitingReview ==
    {i \in 1..Len(pending_stories) :
        pending_stories[i]["_id"] \notin Ids(approved_stories) \cup Ids(rejected_stories)}

(* C29.  A story inserted by submit_story_for_review is listed by the      *)
(* pending endpoint, and counted in total_count, until it is approved or   *)
(* rejected, when limit and offset cover it.                               *)
C29_SubmittedIsListed ==
    lastOp = "get_pending_stories" /\ lastArgs.offset = 0 /\ lastArgs.limit = MaxSubmitted =>
        /\ \A i \in AwaitingReview :
              \E n \in 1..Len(lastResult.pending_stories) :
                  lastResult.pending_stories[n]["id"] = Str(pending_stories[i]["_id"])
        /\ lastResult.total_count >= Cardinality(AwaitingReview)

-----------------------------------------------------------------------------
(* ResetSpec: POST /auth/reset-password.  The handler verifies the token   *)
(* (find_one), hashes the password and calls UserDatabase.reset_password,  *)
(* which verifies the token again (find_one) and then updates the user by  *)
(* _id (update_one).  Each database operation is awaited.                  *)

MaxUsers == 2
MaxResets == 3

Resets == 1..MaxResets

\* the token create_password_reset_token stored with user id
TokenOf(id) == "token" \o ToString(id)

ResetTokens == {TokenOf(id) : id \in 1..MaxUsers} \cup {"unknown"}

NewPasswords == {"password1", "password2"}

\* get_password_hash(password)
PasswordHash(password) == "$2b$" \o password

\* a user who has asked for a reset; the expiry is ahead or behind of now
UserDoc(id) ==
    [_id                 |-> id,
     password_hash       |-> PasswordHash("password0"),
     reset_token         |-> TokenOf(id),
     reset_token_expires |-> "ahead"]

\* users.find_one({"reset_token": token, "reset_token_expires": {"$gt": now}})
VerifyResetToken(token) ==
    LET matches(i) == /\ "reset_token" \in DOMAIN users[i]
                      /\ users[i]["reset_token"] = token
                      /\ users[i]["reset_token_expires"] = "ahead"
    IN  IF \E i \in 1..Len(users) : matches(i)
        THEN CHOOSE i \in 1..Len(users) : matches(i) /\ \A j \in 1..(i - 1) : ~matches(j)
        ELSE 0

\* update_one({"_id": id}, {"$set": {password_hash, last_login}, "$unset": {reset_token, ...}})
UpdatePassword(id, new_password_hash) ==
    [i \in 1..Len(users) |->
        IF users[i]["_id"] = id
        THEN Pop(Pop(With(users[i], "password_hash", new_password_hash),
                     "reset_token"), "reset_token_expires")
        ELSE users[i]]

\* what the steps of a reset leave alone
ResetFrame ==
    UNCHANGED <<model, story_data, pending_stories, approved_stories, rejected_stories,
                lastOp, lastArgs, lastResult, lastRaised, lastEncoded, inferenceFailed,
                similarities, theme_text, hash_order, running, log>>

\* the request arrives
ResetStart(request, token, new_password) ==
    /\ At(request, "absent")
    /\ requests' = [requests EXCEPT ![request] =
                       [token |-> token, new_password |-> new_password,
                        pc |-> "verify", status_code |-> 0]]
    /\ UNCHANGED users
    /\ ResetFrame

\* routers/auth.py: user = await UserDatabase.verify_reset_token(token)
ResetVerify(request) ==
    /\ At(request, "verify")
    /\ requests' = [requests EXCEPT ![request] =
                       IF VerifyResetToken(requests[request].token) = 0
                       THEN [@ EXCEPT !.pc = "done", !.status_code = 400]
                       ELSE [@ EXCEPT !.pc = "verify_again"]]
    /\ UNCHANGED users
    /\ ResetFrame

\* UserDatabase.reset_password: user = await UserDatabase.verify_reset_token(token)
ResetVerifyAgain(request) ==
    /\ At(request, "verify_again")
    /\ LET i == VerifyResetToken(requests[request].token) IN
       requests' = [requests EXCEPT ![request] =
                       IF i = 0
                       THEN [@ EXCEPT !.pc = "done", !.status_code = 500]
                       ELSE [pc |-> "update_one", user_id |-> users[i]["_id"]] @@ @]
    /\ UNCHANGED users
    /\ ResetFrame

\* UserDatabase.reset_password: await users.update_one(...); the handler
\* answers with success
ResetUpdate(request) ==
    /\ At(request, "update_one")
    /\ users' = UpdatePassword(requests[request].user_id,
                               PasswordHash(requests[request].new_password))
    /\ requests' = [requests EXCEPT ![request].pc = "done", ![request].status_code = 200]
    /\ ResetFrame

\* an hour passes: the token of a user is behind of now
TokenExpires ==
    \E i \in 1..Len(users) :
        /\ "reset_token" \in DOMAIN users[i]
        /\ users[i]["reset_token_expires"] = "ahead"
        /\ users' = [users EXCEPT ![i] = With(@, "reset_token_expires", "behind")]
        /\ UNCHANGED requests
        /\ ResetFrame

ResetInit ==
    /\ model = "primary"
    /\ story_data = <<>>
    /\ approved_stories = <<>>
    /\ pending_stories = <<>>
    /\ rejected_stories = <<>>
    /\ lastOp = "none"
    /\ lastArgs = <<>>
    /\ lastResult = <<>>
    /\ lastRaised = FALSE
    /\ lastEncoded = FALSE
    /\ inferenceFailed = FALSE
    /\ similarities = <<>>
    /\ theme_text = ""
    /\ hash_order = DictOrder
    /\ requests = [request \in Resets |-> [pc |-> "absent", status_code |-> 0]]
    /\ running = 0
    /\ log = <<>>
    /\ users = [id \in 1..MaxUsers |-> UserDoc(id)]

ResetNext ==
    \/ TokenExpires
    \/ \E request \in Resets :
          \/ \E token \in ResetTokens, new_password \in NewPasswords :
                ResetStart(request, token, new_password)
          \/ ResetVerify(request)
          \/ ResetVerifyAgain(request)
          \/ ResetUpdate(request)

ResetSpec == ResetInit /\ [][ResetNext]_vars

\* the requests that changed a password with token
Succeeded(token) ==
    {request \in Resets : /\ At(request, "done")
                          /\ requests[request].status_code = 200
                          /\ requests[request].token = token}

(* C30.  A reset token changes a password at most once: of the            *)
(* reset-password requests made with one token, run one after another or   *)
(* interleaved, at most one succeeds.                                      *)
C30_TokenUsedOnce == \A token \in ResetTokens : Cardinality(Succeeded(token)) <= 1

====
